---- MODULE Spec2Model ----
(***************************************************************************)
(* analyze_trading_profit of src/server.py (lines 540-707) as a state      *)
(* machine: fetch and filter the orders, group them by ticker, match each  *)
(* ticker's buys against its sells by closest price, aggregate, sort and   *)
(* return.  Money is counted in integer cents and quantities in whole      *)
(* shares; round(x, 2) is rounding of the exact quotient to a whole cent.  *)
(***************************************************************************)
EXTENDS Integers, Sequences, FiniteSets, TLC

\* Longest order list returned by rh.orders.get_all_stock_orders().
MaxOrders == 3

(***************************************************************************)
(* Python values of an order's fields.  A field of the order dict is a     *)
(* tagged value: a number, a string (a sequence of characters, here small  *)
(* integers), a key that is absent, a None, or text float() cannot parse.  *)
(***************************************************************************)
Num(v) == [tag |-> "num", val |-> <<v>>]
Str(s) == [tag |-> "str", val |-> s]
Absent == [tag |-> "absent", val |-> <<>>]
None == [tag |-> "none", val |-> <<>>]
Unparseable == [tag |-> "unparseable", val |-> <<>>]

\* dict.get(key, default): the default only replaces an absent key.
Get(field, default) == IF field.tag = "absent" THEN default ELSE field

\* dict.get(key): an absent key reads as None.
GetOrNone(field) == IF field.tag = "absent" THEN None ELSE field

\* float(x) raises ValueError or TypeError unless x is a number.
FloatRaises(x) == x.tag # "num"
Float(x) == x.val[1]

\* str.startswith(prefix)
StartsWith(s, prefix) ==
    /\ Len(prefix) <= Len(s)
    /\ \A k \in 1..Len(prefix) : s[k] = prefix[k]

\* s < t on Python strings: lexicographic order.
StrLess(s, t) ==
    \/ \E k \in 1..Len(s) :
          /\ k <= Len(t)
          /\ s[k] < t[k]
          /\ \A j \in 1..(k - 1) : s[j] = t[j]
    \/ /\ Len(s) < Len(t)
       /\ \A j \in 1..Len(s) : s[j] = t[j]

\* An entry of order['executions']: a dict with fees, a dict without the
\* key, a dict whose fees float() rejects, or a value that is no dict.
ExecFee(v) == [tag |-> "fee", val |-> <<v>>]
ExecNoFee == [tag |-> "nofee", val |-> <<>>]
ExecBadFee == [tag |-> "badfee", val |-> <<>>]
ExecNotDict == [tag |-> "notdict", val |-> <<>>]

\* order['executions']: a list of entries, absent, or None.
ExecList(es) == [tag |-> "list", val |-> es]
ExecAbsent == [tag |-> "absent", val |-> <<>>]
ExecNone == [tag |-> "none", val |-> <<>>]

Abs(x) == IF x < 0 THEN -x ELSE x

Min(a, b) == IF a < b THEN a ELSE b

RECURSIVE SumSeq(_)
SumSeq(s) == IF s = <<>> THEN 0 ELSE Head(s) + SumSeq(Tail(s))

\* round(n / d, 2) in cents for d > 0: the nearest whole cent, a tie going
\* to the even one.
RoundDiv(n, d) ==
    LET q == n \div d
        r == n % d
    IN  IF 2 * r < d THEN q
        ELSE IF 2 * r > d THEN q + 1
        ELSE IF q % 2 = 0 THEN q ELSE q + 1

\* list.sort(key=...): a stable sort; less[i, j] is key(s[i]) < key(s[j]),
\* or key(s[i]) > key(s[j]) under reverse=True.
StableSort(s, less) ==
    LET n == Len(s)
        pos(i) == 1 + Cardinality({j \in 1..n :
                        \/ less[j, i]
                        \/ (~less[i, j] /\ j < i)})
    IN  [p \in 1..n |-> s[CHOOSE i \in 1..n : pos(i) = p]]

VARIABLES
    date,                 \* the date argument
    all_orders,           \* what rh.orders.get_all_stock_orders() returns
    pc,                   \* position in analyze_trading_profit
    filled_orders,
    gi,                   \* index of the grouping loop in filled_orders
    ticker_groups,        \* the dict, as a sequence in insertion order
    ti,                   \* index of the ticker loop in ticker_groups
    bi,                   \* index of the buy loop in buys
    buy_qty,
    matched_pairs,
    results,
    total_profit,
    total_matched_trades,
    ret                   \* the returned dict

vars == <<date, all_orders, pc, filled_orders, gi, ticker_groups, ti, bi,
          buy_qty, matched_pairs, results, total_profit,
          total_matched_trades, ret>>

\* The symbol rh.stocks.get_instrument_by_url reports for an instrument.
Symbol(instrument_url) ==
    CASE instrument_url = "u1" -> "AAA"
      [] instrument_url = "u2" -> "BBB"
      [] OTHER -> "UNKNOWN"

\* get_ticker_from_instrument handing back the URL when the lookup fails.
get_ticker_or_url(order) ==
    IF order.instrument = "" THEN "UNKNOWN"
    ELSE IF order.lookup = "ok" THEN Symbol(order.instrument)
    ELSE order.instrument

\* order.lookup is the outcome of the get_instrument_by_url call made for
\* the order: "ok", or "fail" when the call raises or returns no dict.
get_ticker_from_instrument(order) ==
    IF order.instrument = "" THEN "UNKNOWN"
    ELSE IF order.lookup = "ok" THEN Symbol(order.instrument)
    ELSE "UNKNOWN"

\* ErrorResult that also hands out what was computed so far.
ErrorResultWithTotals(exception) ==
    [status |-> "error", message |-> exception,
     total_profit |-> total_profit, ticker_results |-> results]

\* The except clause of analyze_trading_profit.
ErrorResult(exception) ==
    [status |-> "error", message |-> exception]

(***************************************************************************)
(* Lines 550-554: fetch, filter by date prefix, filter by state.            *)
(***************************************************************************)

\* o.get('created_at', '').startswith(date) raises AttributeError on None.
FilterRaises ==
    \E i \in 1..Len(all_orders) : all_orders[i].created_at.tag = "none"

OnDate(o) == StartsWith(Get(o.created_at, Str(<<>>)).val, date)

IsFilled(o) == o.state = "filled"

FilledOrders == SelectSeq(SelectSeq(all_orders, OnDate), IsFilled)

\* fetched = FALSE: get_all_stock_orders raises.
FetchOrders(fetched) ==
    /\ pc = "start"
    /\ IF ~fetched
       THEN /\ ret' = ErrorResult("CollaboratorFailure")
            /\ pc' = "done"
            /\ UNCHANGED filled_orders
       ELSE IF FilterRaises
       THEN /\ ret' = ErrorResult("AttributeError")
            /\ pc' = "done"
            /\ UNCHANGED filled_orders
       ELSE /\ filled_orders' = FilledOrders
            /\ pc' = IF FilledOrders = <<>> THEN "ticker" ELSE "group"
            /\ UNCHANGED ret
    /\ UNCHANGED <<date, all_orders, gi, ticker_groups, ti, bi, buy_qty,
                   matched_pairs, results, total_profit,
                   total_matched_trades>>

(***************************************************************************)
(* Lines 556-589: one iteration of the grouping loop.                       *)
(***************************************************************************)

Executions(order) == Get(order.executions, ExecList(<<>>))

\* sum([float(e.get('fees', 0)) for e in executions]): "ok", "skip" when
\* the first failing entry raises ValueError or TypeError (or executions
\* is None), "raise" when it raises AttributeError.
FeesOutcome(order) ==
    LET ex == Executions(order)
        es == ex.val
        failing == {k \in 1..Len(es) : es[k].tag \in {"badfee", "notdict"}}
        first == CHOOSE k \in failing : \A j \in failing : k <= j
    IN  IF ex.tag = "none" THEN "skip"
        ELSE IF failing = {} THEN "ok"
        ELSE IF es[first].tag = "badfee" THEN "skip"
        ELSE "raise"

Fees(order) ==
    LET es == Executions(order).val
    IN  SumSeq([k \in 1..Len(es) |->
                  IF es[k].tag = "fee" THEN es[k].val[1] ELSE 0])

\* ParseOutcome whose except clause is missing: every failure propagates.
ParseOutcomeUncaught(order) ==
    IF FloatRaises(Get(order.average_price, Num(0))) THEN "raise"
    ELSE IF FloatRaises(Get(order.quantity, Num(0))) THEN "raise"
    ELSE IF FeesOutcome(order) = "ok" THEN "ok"
    ELSE "raise"

\* ParseOutcome that reads a fee float() rejects as no fee.
ParseOutcomeLenientFees(order) ==
    IF FloatRaises(Get(order.average_price, Num(0))) THEN "skip"
    ELSE IF FloatRaises(Get(order.quantity, Num(0))) THEN "skip"
    ELSE IF Executions(order).tag = "none" THEN "skip"
    ELSE IF FeesOutcome(order) = "raise" THEN "raise"
    ELSE "ok"

\* The try block of lines 564-589: price, then quantity, then fees.
ParseOutcome(order) ==
    IF FloatRaises(Get(order.average_price, Num(0))) THEN "skip"
    ELSE IF FloatRaises(Get(order.quantity, Num(0))) THEN "skip"
    ELSE FeesOutcome(order)

\* TradeRecord whose remaining_qty falls back to 1, not 0, for an order
\* without quantity.
TradeRecordRemainingOne(order) ==
    [id |-> order.id,
     price |-> Float(Get(order.average_price, Num(0))),
     quantity |-> Float(Get(order.quantity, Num(0))),
     remaining_qty |-> Float(Get(order.quantity, Num(1))),
     fees |-> Fees(order),
     timestamp |-> GetOrNone(order.last_transaction_at),
     created_at |-> GetOrNone(order.created_at)]

TradeRecord(order) ==
    [id |-> order.id,
     price |-> Float(Get(order.average_price, Num(0))),
     quantity |-> Float(Get(order.quantity, Num(0))),
     remaining_qty |-> Float(Get(order.quantity, Num(0))),
     fees |-> Fees(order),
     timestamp |-> GetOrNone(order.last_transaction_at),
     created_at |-> GetOrNone(order.created_at)]

GroupIndex(groups, ticker) ==
    CHOOSE k \in 1..Len(groups) : groups[k].ticker = ticker

\* Lines 559-561: the ticker's group exists before the order is parsed.
WithGroup(groups, ticker) ==
    IF \E k \in 1..Len(groups) : groups[k].ticker = ticker
    THEN groups
    ELSE Append(groups, [ticker |-> ticker, buys |-> <<>>, sells |-> <<>>])

\* Lines 583-586.
AddTrade(groups, ticker, order) ==
    LET k == GroupIndex(groups, ticker)
    IN  IF order.side = "buy"
        THEN [groups EXCEPT ![k].buys = Append(@, TradeRecord(order))]
        ELSE [groups EXCEPT ![k].sells = Append(@, TradeRecord(order))]

GroupOrder ==
    /\ pc = "group"
    /\ LET order == filled_orders[gi]
           ticker == get_ticker_from_instrument(order)
           groups == WithGroup(ticker_groups, ticker)
           outcome == ParseOutcome(order)
       IN  IF outcome = "raise"
           THEN /\ ret' = ErrorResult("AttributeError")
                /\ pc' = "done"
                /\ ticker_groups' = groups
                /\ UNCHANGED gi
           ELSE /\ ticker_groups' = IF outcome = "skip" THEN groups
                                    ELSE AddTrade(groups, ticker, order)
                /\ gi' = gi + 1
                /\ pc' = IF gi = Len(filled_orders) THEN "ticker" ELSE "group"
                /\ UNCHANGED ret
    /\ UNCHANGED <<date, all_orders, filled_orders, ti, bi, buy_qty,
                   matched_pairs, results, total_profit,
                   total_matched_trades>>

(***************************************************************************)
(* Lines 596-607: the ticker loop takes the next group and sorts it.        *)
(***************************************************************************)

\* Comparing a None key with any key raises TypeError; a sort of two or
\* more elements compares every element with some other.
SortBuysRaises(buys) ==
    /\ Len(buys) >= 2
    /\ \E k \in 1..Len(buys) : buys[k].created_at.tag # "str"

\* SortBuys without the sort of line 601: the buys stay in input order.
SortBuysUnsorted(buys) == buys

\* buys.sort(key=lambda x: x['created_at'])
SortBuys(buys) ==
    StableSort(buys, [i, j \in 1..Len(buys) |->
        StrLess(buys[i].created_at.val, buys[j].created_at.val)])

\* SortSells without reverse=True: ascending by price.
SortSellsAscending(sells) ==
    StableSort(sells, [i, j \in 1..Len(sells) |->
        sells[i].price < sells[j].price])

\* sells.sort(key=lambda x: x['price'], reverse=True)
SortSells(sells) ==
    StableSort(sells, [i, j \in 1..Len(sells) |->
        sells[i].price > sells[j].price])

\* for buy in buys: buy_qty = buy['remaining_qty']
EnterBuy(buys, k) == IF k <= Len(buys) THEN buys[k].remaining_qty ELSE 0

BeginTicker ==
    /\ pc = "ticker"
    /\ ti <= Len(ticker_groups)
    /\ LET trades == ticker_groups[ti]
       IN  IF SortBuysRaises(trades.buys)
           THEN /\ ret' = ErrorResult("TypeError")
                /\ pc' = "done"
                /\ UNCHANGED <<ticker_groups, matched_pairs, bi, buy_qty>>
           ELSE /\ ticker_groups' =
                      [ticker_groups EXCEPT
                          ![ti].buys = SortBuys(trades.buys),
                          ![ti].sells = SortSells(trades.sells)]
                /\ matched_pairs' = <<>>
                /\ bi' = 1
                /\ buy_qty' = EnterBuy(SortBuys(trades.buys), 1)
                /\ pc' = "buy"
                /\ UNCHANGED ret
    /\ UNCHANGED <<date, all_orders, filled_orders, gi, ti, results,
                   total_profit, total_matched_trades>>

(***************************************************************************)
(* Lines 609-664: the buy loop and its while loop.                          *)
(***************************************************************************)

Buys == ticker_groups[ti].buys
Sells == ticker_groups[ti].sells

\* WhileCondition with all() in place of any() on line 614.
WhileConditionAllSells ==
    /\ buy_qty > 0
    /\ \A i \in 1..Len(Sells) : Sells[i].remaining_qty > 0

\* Line 614.
WhileCondition ==
    /\ buy_qty > 0
    /\ \E i \in 1..Len(Sells) : Sells[i].remaining_qty > 0

\* Line 621 on a None raises TypeError; it is reached for every sell that
\* has quantity left.
CompareRaises(buy, sells) ==
    \E i \in 1..Len(sells) :
        /\ sells[i].remaining_qty > 0
        /\ (sells[i].created_at.tag # "str" \/ buy.created_at.tag # "str")

\* Eligible with >= in place of > on line 621.
EligibleNotStrict(sell, buy) ==
    /\ sell.remaining_qty > 0
    /\ ~StrLess(sell.created_at.val, buy.created_at.val)

\* Eligible that also takes a sell with nothing left.
EligibleWithNothingLeft(sell, buy) ==
    /\ sell.remaining_qty >= 0
    /\ StrLess(buy.created_at.val, sell.created_at.val)

\* Lines 619-621.
Eligible(sell, buy) ==
    /\ sell.remaining_qty > 0
    /\ StrLess(buy.created_at.val, sell.created_at.val)

\* Line 622.
PriceDiff(sell, buy_price) == Abs(sell.price - buy_price)

\* Lines 616-623: the indices of price_diffs.
Candidates(buy, sells) ==
    {i \in 1..Len(sells) : Eligible(sells[i], buy)}

\* ClosestSell without the sort of line 629: the first candidate.
FirstCandidate(buy, sells) ==
    CHOOSE i \in Candidates(buy, sells) :
        \A j \in Candidates(buy, sells) : i <= j

\* Lines 628-632: the stable sort by price difference puts the lowest
\* index of the smallest difference first.
ClosestSell(buy, sells) ==
    CHOOSE i \in Candidates(buy, sells) :
        \A j \in Candidates(buy, sells) :
            \/ PriceDiff(sells[i], buy.price) < PriceDiff(sells[j], buy.price)
            \/ /\ PriceDiff(sells[i], buy.price) = PriceDiff(sells[j], buy.price)
               /\ i <= j

\* MatchQty without the min of line 636.
MatchQtyOfBuyOnly(qty, sell) == qty

\* Line 636.
MatchQty(qty, sell) == Min(qty, sell.remaining_qty)

\* MatchedPair whose fee shares are taken of the quantity each record has
\* left at the match, not of its original quantity.
MatchedPairOfRemaining(buy, sell, match_qty) ==
    LET denominator == buy.remaining_qty * sell.remaining_qty
        total_fees == buy.fees * match_qty * sell.remaining_qty
                        + sell.fees * match_qty * buy.remaining_qty
        trade_profit == (sell.price - buy.price) * match_qty
    IN  [buy_id |-> buy.id,
         sell_id |-> sell.id,
         quantity |-> match_qty,
         buy_price |-> buy.price,
         sell_price |-> sell.price,
         profit |-> RoundDiv(trade_profit * denominator - total_fees,
                             denominator),
         fees |-> RoundDiv(total_fees, denominator)]

\* Lines 640-658.  total_fees is
\* buy.fees * (match_qty / buy.quantity) + sell.fees * (match_qty / sell.quantity).
MatchedPair(buy, sell, match_qty) ==
    LET denominator == buy.quantity * sell.quantity
        total_fees == buy.fees * match_qty * sell.quantity
                        + sell.fees * match_qty * buy.quantity
        trade_profit == (sell.price - buy.price) * match_qty
    IN  [buy_id |-> buy.id,
         sell_id |-> sell.id,
         quantity |-> match_qty,
         buy_price |-> buy.price,
         sell_price |-> sell.price,
         profit |-> RoundDiv(trade_profit * denominator - total_fees,
                             denominator),
         fees |-> RoundDiv(total_fees, denominator)]

\* One iteration of the while loop that does not leave it by break.
MatchStep ==
    /\ pc = "buy"
    /\ bi <= Len(Buys)
    /\ WhileCondition
    /\ (CompareRaises(Buys[bi], Sells) \/ Candidates(Buys[bi], Sells) # {})
    /\ LET buy == Buys[bi]
           sell_idx == ClosestSell(buy, Sells)
           sell == Sells[sell_idx]
           match_qty == MatchQty(buy_qty, sell)
       IN  IF CompareRaises(buy, Sells)
           THEN /\ ret' = ErrorResult("TypeError")
                /\ pc' = "done"
                /\ UNCHANGED <<ticker_groups, matched_pairs, buy_qty>>
           ELSE IF match_qty <= 0
           THEN UNCHANGED <<ticker_groups, matched_pairs, buy_qty, ret, pc>>
           ELSE IF buy.quantity = 0 \/ sell.quantity = 0
           THEN /\ ret' = ErrorResult("ZeroDivisionError")
                /\ pc' = "done"
                /\ UNCHANGED <<ticker_groups, matched_pairs, buy_qty>>
           ELSE /\ matched_pairs' =
                      Append(matched_pairs, MatchedPair(buy, sell, match_qty))
                /\ ticker_groups' =
                      [ticker_groups EXCEPT
                          ![ti].buys[bi].remaining_qty = @ - match_qty,
                          ![ti].sells[sell_idx].remaining_qty = @ - match_qty]
                /\ buy_qty' = buy_qty - match_qty
                /\ UNCHANGED <<ret, pc>>
    /\ UNCHANGED <<date, all_orders, filled_orders, gi, ti, bi, results,
                   total_profit, total_matched_trades>>

\* The while loop ends (its condition fails, or line 626 breaks) and the
\* buy loop moves on.
EndBuy ==
    /\ pc = "buy"
    /\ bi <= Len(Buys)
    /\ IF WhileCondition
       THEN ~CompareRaises(Buys[bi], Sells) /\ Candidates(Buys[bi], Sells) = {}
       ELSE TRUE
    /\ bi' = bi + 1
    /\ buy_qty' = EnterBuy(Buys, bi + 1)
    /\ UNCHANGED <<date, all_orders, pc, filled_orders, gi, ticker_groups,
                   ti, matched_pairs, results, total_profit,
                   total_matched_trades, ret>>

(***************************************************************************)
(* Lines 666-692: the ticker's result.                                      *)
(***************************************************************************)

\* sum(m['profit'] for m in ...), sum(m['fees'] ...), sum(x['quantity'] ...)
SumProfit(s) == SumSeq([k \in 1..Len(s) |-> s[k].profit])
SumFees(s) == SumSeq([k \in 1..Len(s) |-> s[k].fees])
SumQuantity(s) == SumSeq([k \in 1..Len(s) |-> s[k].quantity])

\* Lines 676-678, rounded as on line 690.
AvgProfitPerShare(ticker_profit, matched_shares) ==
    IF matched_shares > 0 THEN RoundDiv(ticker_profit, matched_shares) ELSE 0

\* TickerResult whose profit is the gross profit of the pairs, fees left out.
SumGross(s) ==
    SumSeq([k \in 1..Len(s) |->
              (s[k].sell_price - s[k].buy_price) * s[k].quantity])

TickerResultGrossProfit(trades, pairs) ==
    [ticker |-> trades.ticker,
     buy_orders |-> Len(trades.buys),
     sell_orders |-> Len(trades.sells),
     matched_trades |-> Len(pairs),
     buy_shares |-> SumQuantity(trades.buys),
     sell_shares |-> SumQuantity(trades.sells),
     matched_shares |-> SumQuantity(pairs),
     fees |-> SumFees(pairs),
     profit |-> SumGross(pairs),
     avg_profit_per_share |->
         AvgProfitPerShare(SumGross(pairs), SumQuantity(pairs)),
     matches |-> pairs]

TickerResult(trades, pairs) ==
    [ticker |-> trades.ticker,
     buy_orders |-> Len(trades.buys),
     sell_orders |-> Len(trades.sells),
     matched_trades |-> Len(pairs),
     buy_shares |-> SumQuantity(trades.buys),
     sell_shares |-> SumQuantity(trades.sells),
     matched_shares |-> SumQuantity(pairs),
     fees |-> SumFees(pairs),
     profit |-> SumProfit(pairs),
     avg_profit_per_share |->
         AvgProfitPerShare(SumProfit(pairs), SumQuantity(pairs)),
     matches |-> pairs]

EndTicker ==
    /\ pc = "buy"
    /\ bi > Len(Buys)
    /\ results' = Append(results, TickerResult(ticker_groups[ti], matched_pairs))
    /\ total_profit' = total_profit + SumProfit(matched_pairs)
    /\ total_matched_trades' = total_matched_trades + Len(matched_pairs)
    /\ ti' = ti + 1
    /\ pc' = "ticker"
    /\ UNCHANGED <<date, all_orders, filled_orders, gi, ticker_groups, bi,
                   buy_qty, matched_pairs, ret>>

(***************************************************************************)
(* Lines 694-705: sort the results and return the report.                   *)
(***************************************************************************)

\* SortResults as an ascending sort that is then reversed.
SortResultsAscendingReversed(rs) ==
    LET sorted == StableSort(rs, [i, j \in 1..Len(rs) |->
                                    rs[i].profit < rs[j].profit])
    IN  [k \in 1..Len(rs) |-> sorted[Len(rs) + 1 - k]]

\* results.sort(key=lambda x: x['profit'], reverse=True)
SortResults(rs) ==
    StableSort(rs, [i, j \in 1..Len(rs) |-> rs[i].profit > rs[j].profit])

ProfitReport ==
    [status |-> "success",
     date |-> date,
     total_profit |-> total_profit,
     ticker_results |-> SortResults(results),
     matched_trades |-> total_matched_trades,
     trade_count |-> Len(filled_orders),
     algorithm |-> "closest_price_matching"]

Return ==
    /\ pc = "ticker"
    /\ ti > Len(ticker_groups)
    /\ ret' = ProfitReport
    /\ pc' = "done"
    /\ UNCHANGED <<date, all_orders, filled_orders, gi, ticker_groups, ti,
                   bi, buy_qty, matched_pairs, results, total_profit,
                   total_matched_trades>>

Next ==
    \/ \E fetched \in BOOLEAN : FetchOrders(fetched)
    \/ GroupOrder
    \/ BeginTicker
    \/ MatchStep
    \/ EndBuy
    \/ EndTicker
    \/ Return

(***************************************************************************)
(* Inputs: the date argument and the order list the brokerage returns.      *)
(* A timestamp <<d, t>> is day d, time t; the date <<d>> is its prefix.     *)
(***************************************************************************)

BaseOrder ==
    [id |-> 0,
     side |-> "buy",
     instrument |-> "u1",
     lookup |-> "ok",
     average_price |-> Num(2),
     quantity |-> Num(1),
     executions |-> ExecList(<<ExecFee(1)>>),
     created_at |-> Str(<<1, 1>>),
     last_transaction_at |-> Str(<<1, 1>>),
     state |-> "filled"]

\* A sell is executed no earlier than it is created; its
\* last_transaction_at may be missing.
SellTimes ==
    {<<Str(<<1, 1>>), Str(<<1, 3>>)>>,
     <<Str(<<1, 2>>), Str(<<1, 2>>)>>,
     <<Str(<<1, 3>>), Absent>>}

\* Orders of one ticker that all parse: buys at price 2, sells above it.
MatchOrders ==
    {[BaseOrder EXCEPT !.quantity = Num(q), !.created_at = Str(<<1, t>>),
                       !.last_transaction_at = Str(<<1, t>>)] :
        q \in {1, 3}, t \in {1, 2}}
    \cup
    {[BaseOrder EXCEPT !.side = "sell", !.average_price = Num(p),
                       !.quantity = Num(q), !.created_at = ts[1],
                       !.last_transaction_at = ts[2]] :
        p \in {3, 4}, q \in {1, 3}, ts \in SellTimes}

\* Orders of two tickers, every sell created after every buy, with losses,
\* gains and break-even trades, and a buy of another day.
ReportOrders ==
    {[BaseOrder EXCEPT !.instrument = u, !.executions = ExecList(<<e>>)] :
        u \in {"u1", "u2"}, e \in {ExecNoFee, ExecFee(1)}}
    \cup
    {[BaseOrder EXCEPT !.instrument = u, !.side = "sell",
                       !.average_price = Num(p), !.quantity = Num(q),
                       !.executions = ExecAbsent,
                       !.created_at = Str(<<1, 2>>),
                       !.last_transaction_at = Str(<<1, 2>>)] :
        u \in {"u1", "u2"}, p \in {1, 2, 3}, q \in {1, 3}}
    \cup
    {[BaseOrder EXCEPT !.created_at = Str(<<2, 1>>),
                       !.last_transaction_at = Str(<<2, 1>>)]}

BaseSell ==
    [BaseOrder EXCEPT !.side = "sell", !.average_price = Num(3),
                      !.created_at = Str(<<1, 2>>),
                      !.last_transaction_at = Str(<<1, 2>>)]

\* A sound buy and a sound sell, and orders that depart from them in what
\* the brokerage or the instrument lookup delivers.
FaultyOrders ==
    {BaseOrder,
     BaseSell,
     [BaseOrder EXCEPT !.lookup = "fail"],
     [BaseSell EXCEPT !.instrument = ""],
     [BaseSell EXCEPT !.instrument = "u2", !.average_price = Unparseable],
     [BaseOrder EXCEPT !.average_price = Absent],
     [BaseOrder EXCEPT !.quantity = Absent],
     [BaseSell EXCEPT !.quantity = Absent],
     [BaseSell EXCEPT !.quantity = None],
     [BaseOrder EXCEPT !.executions = ExecList(<<ExecBadFee, ExecNotDict>>)],
     [BaseSell EXCEPT !.executions = ExecList(<<ExecNotDict, ExecBadFee>>)],
     [BaseSell EXCEPT !.executions = ExecNone],
     [BaseOrder EXCEPT !.created_at = Absent],
     [BaseSell EXCEPT !.created_at = None],
     [BaseSell EXCEPT !.created_at = Str(<<2, 2>>),
                      !.last_transaction_at = Str(<<2, 2>>)],
     [BaseSell EXCEPT !.state = "cancelled"]}

\* Orders of one ticker with sells on both sides of the buys' price 2, at
\* the same distance from it, some created no later than the buys.
TieOrders ==
    {[BaseOrder EXCEPT !.quantity = Num(q)] : q \in {1, 3}}
    \cup
    {[BaseOrder EXCEPT !.side = "sell", !.average_price = Num(p),
                       !.quantity = Num(q), !.created_at = Str(<<1, t>>),
                       !.last_transaction_at = Str(<<1, t>>)] :
        p \in {1, 3}, q \in {1, 3}, t \in {1, 2}}

\* Orders of one ticker in cents: buys at 100.00 and later sells at 105.00,
\* of 2, 3 or 10 shares, with a fee of 1.00 or of 0.01.
FeeOrders ==
    {[BaseOrder EXCEPT !.side = s,
                       !.average_price =
                           Num(IF s = "buy" THEN 10000 ELSE 10500),
                       !.quantity = Num(q),
                       !.executions = ExecList(<<ExecFee(f)>>),
                       !.created_at =
                           Str(IF s = "buy" THEN <<1, 1>> ELSE <<1, 2>>),
                       !.last_transaction_at =
                           Str(IF s = "buy" THEN <<1, 1>> ELSE <<1, 2>>)] :
        s \in {"buy", "sell"}, q \in {2, 3, 10}, f \in {100, 1}}

\* Buys and later sells of two instruments; the lookup of an order's
\* instrument may fail.
GroupingOrders ==
    {[BaseOrder EXCEPT !.instrument = u, !.lookup = l] :
        u \in {"u1", "u2"}, l \in {"ok", "fail"}}
    \cup
    {[BaseSell EXCEPT !.instrument = u, !.lookup = l] :
        u \in {"u1", "u2"}, l \in {"ok", "fail"}}

\* Orders of one ticker in which a buy can take several sells and a sell
\* several buys, a sell created no later than the buys, and an order of
\* another ticker whose price does not parse.
LoopOrders ==
    {[BaseOrder EXCEPT !.quantity = Num(q)] : q \in {1, 3}}
    \cup
    {[BaseSell EXCEPT !.quantity = Num(q)] : q \in {1, 3}}
    \cup
    {[BaseSell EXCEPT !.created_at = Str(<<1, 1>>),
                      !.last_transaction_at = Str(<<1, 1>>)],
     [BaseSell EXCEPT !.instrument = "u2", !.average_price = Unparseable]}

InitWith(orders, dates) ==
    /\ date \in dates
    /\ \E n \in 0..MaxOrders : \E f \in [1..n -> orders] :
          all_orders = [i \in 1..n |-> [f[i] EXCEPT !.id = i]]
    /\ pc = "start"
    /\ filled_orders = <<>>
    /\ gi = 1
    /\ ticker_groups = <<>>
    /\ ti = 1
    /\ bi = 1
    /\ buy_qty = 0
    /\ matched_pairs = <<>>
    /\ results = <<>>
    /\ total_profit = 0
    /\ total_matched_trades = 0
    /\ ret = [status |-> "none"]

Init == InitWith(MatchOrders, {<<1>>})

Spec == Init /\ [][Next]_vars

InitReport == InitWith(ReportOrders, {<<1>>})

SpecReport == InitReport /\ [][Next]_vars

InitTie == InitWith(TieOrders, {<<1>>})

SpecTie == InitTie /\ [][Next]_vars

InitFee == InitWith(FeeOrders, {<<1>>})

SpecFee == InitFee /\ [][Next]_vars

InitGrouping == InitWith(GroupingOrders, {<<1>>})

SpecGrouping == InitGrouping /\ [][Next]_vars

InitLoop == InitWith(LoopOrders, {<<1>>})

\* The function runs as one sequential coroutine that awaits nothing
\* between lines 549 and 705: a statement that can run does run.
SpecLoop == InitLoop /\ [][Next]_vars /\ WF_vars(Next)

\* The date may be the empty string, which every created_at starts with.
InitFaulty == InitWith(FaultyOrders, {<<>>, <<1>>})

SpecFaulty == InitFaulty /\ [][Next]_vars

(***************************************************************************)
(* Properties.                                                              *)
(***************************************************************************)

SeqSet(s) == {s[k] : k \in 1..Len(s)}

PairsOf(rs) == UNION {SeqSet(rs[k].matches) : k \in 1..Len(rs)}

\* Every MatchedPair emitted so far, in the loop or in a result.
EmittedPairs ==
    SeqSet(matched_pairs) \cup PairsOf(results)
        \cup (IF ret.status = "success" THEN PairsOf(ret.ticker_results)
              ELSE {})

\* The matches of the k-th ticker group so far.
GroupPairs(k) ==
    IF k <= Len(results) THEN results[k].matches
    ELSE IF k = ti /\ pc = "buy" THEN matched_pairs
    ELSE <<>>

\* s < t on timestamps that may be None: false when either is no string.
After(t, s) == s.tag = "str" /\ t.tag = "str" /\ StrLess(s.val, t.val)

\* C1 as stated: every emitted MatchedPair pairs a buy and a sell whose
\* last_transaction_at is strictly greater than the buy's created_at.
C1_SellTransactionAfterBuyCreated ==
    \A m \in EmittedPairs :
        After(all_orders[m.sell_id].last_transaction_at,
              all_orders[m.buy_id].created_at)

\* C1 amended: every emitted MatchedPair pairs a buy and a sell whose
\* created_at is strictly greater than the buy's created_at; the sell's
\* last_transaction_at is then greater too whenever the sell has one that
\* is not earlier than its own created_at.
C1_SellCreatedAfterBuyCreated ==
    \A m \in EmittedPairs :
        LET sell == all_orders[m.sell_id]
            buy == all_orders[m.buy_id]
        IN  /\ After(sell.created_at, buy.created_at)
            /\ (/\ sell.last_transaction_at.tag = "str"
                /\ ~StrLess(sell.last_transaction_at.val, sell.created_at.val))
               => After(sell.last_transaction_at, buy.created_at)

\* A report holds a pair whose sell carries a last_transaction_at.
C1_Witness ==
    /\ ret.status = "success"
    /\ \E m \in PairsOf(ret.ticker_results) :
          all_orders[m.sell_id].last_transaction_at.tag = "str"

GroupRecords(k) ==
    SeqSet(ticker_groups[k].buys) \cup SeqSet(ticker_groups[k].sells)

\* The quantity the matches of group k take from the order id.
Consumed(k, id) ==
    SumSeq([j \in 1..Len(GroupPairs(k)) |->
              IF id \in {GroupPairs(k)[j].buy_id, GroupPairs(k)[j].sell_id}
              THEN GroupPairs(k)[j].quantity ELSE 0])

\* C2: in every state each buy and sell record has
\* 0 <= remaining_qty <= quantity and its matches consume no more than its
\* quantity; in the report every ticker has
\* matched_shares = sum of its pairs' quantities <= min(buy_shares, sell_shares).
C2_Conservation ==
    /\ \A k \in 1..Len(ticker_groups) : \A r \in GroupRecords(k) :
          /\ 0 <= r.remaining_qty
          /\ r.remaining_qty <= r.quantity
          /\ Consumed(k, r.id) <= r.quantity
    /\ ret.status = "success" =>
          \A k \in 1..Len(ret.ticker_results) :
              LET tr == ret.ticker_results[k]
              IN  /\ tr.matched_shares = SumQuantity(tr.matches)
                  /\ tr.matched_shares <= Min(tr.buy_shares, tr.sell_shares)

\* A report in which a ticker is matched in part, one sell shared by two
\* buys or one buy spread over two sells.
C2_Witness ==
    /\ ret.status = "success"
    /\ \E k \in 1..Len(ret.ticker_results) :
          LET tr == ret.ticker_results[k]
          IN  /\ tr.matched_trades >= 2
              /\ tr.matched_shares < tr.buy_shares

\* The step emitted a MatchedPair.
Emits == pc = "buy" /\ Len(matched_pairs') = Len(matched_pairs) + 1

NewPair == matched_pairs'[Len(matched_pairs')]

\* The buy loop left the current buy.
LeavesBuy == pc = "buy" /\ bi <= Len(Buys) /\ bi' = bi + 1

\* The sells with quantity left whose last_transaction_at is after the
\* current buy's created_at.
OpenSellsByTransaction ==
    {j \in 1..Len(Sells) :
        /\ Sells[j].remaining_qty > 0
        /\ After(all_orders[Sells[j].id].last_transaction_at,
                 all_orders[Buys[bi].id].created_at)}

\* The sells with quantity left whose created_at is after the current
\* buy's created_at.
OpenSellsByCreation ==
    {j \in 1..Len(Sells) :
        /\ Sells[j].remaining_qty > 0
        /\ After(all_orders[Sells[j].id].created_at,
                 all_orders[Buys[bi].id].created_at)}

\* C3 as stated: each matching step takes a sell of smallest price
\* difference among all sells with quantity left and transaction_at after
\* the buy's created_at, and a buy is left only when there is no such sell
\* or the buy is fully matched.
C3_ClosestAmongTransactedLater ==
    [][/\ Emits =>
            /\ \E j \in OpenSellsByTransaction : Sells[j].id = NewPair.sell_id
            /\ \A j \in OpenSellsByTransaction :
                  Abs(NewPair.sell_price - NewPair.buy_price)
                      <= Abs(Sells[j].price - Buys[bi].price)
       /\ LeavesBuy =>
            OpenSellsByTransaction = {} \/ Buys[bi].remaining_qty = 0]_vars

\* C3 amended: each matching step takes a sell of smallest price difference
\* among all sells with quantity left and created_at after the buy's
\* created_at, and a buy is left only when there is no such sell or the buy
\* is fully matched.
C3_ClosestAmongCreatedLater ==
    [][/\ Emits =>
            /\ \E j \in OpenSellsByCreation : Sells[j].id = NewPair.sell_id
            /\ \A j \in OpenSellsByCreation :
                  Abs(NewPair.sell_price - NewPair.buy_price)
                      <= Abs(Sells[j].price - Buys[bi].price)
       /\ LeavesBuy =>
            OpenSellsByCreation = {} \/ Buys[bi].remaining_qty = 0]_vars

\* A pair was emitted while a sell created after the buy, with quantity
\* left and a strictly larger price difference, stood earlier in the list.
C3_Witness ==
    /\ pc = "buy"
    /\ bi <= Len(Buys)
    /\ matched_pairs # <<>>
    /\ LET m == matched_pairs[Len(matched_pairs)]
       IN  /\ m.buy_id = Buys[bi].id
           /\ \E j, c \in 1..Len(Sells) :
                 /\ j < c
                 /\ Sells[c].id = m.sell_id
                 /\ j \in OpenSellsByCreation
                 /\ Abs(Sells[j].price - m.buy_price)
                       > Abs(m.sell_price - m.buy_price)

\* The orders of the requested date that are filled, by their ids.
FilledIds ==
    {i \in 1..Len(all_orders) : OnDate(all_orders[i]) /\ IsFilled(all_orders[i])}

\* Some entry of the order's executions is no dict.
HasNotDictExecution(o) ==
    /\ o.executions.tag = "list"
    /\ \E k \in 1..Len(o.executions.val) : o.executions.val[k].tag = "notdict"

\* Some entry of the order's executions has fees float() rejects, or the
\* executions are None.
HasBadFee(o) ==
    \/ o.executions.tag = "none"
    \/ /\ o.executions.tag = "list"
       /\ \E k \in 1..Len(o.executions.val) : o.executions.val[k].tag = "badfee"

\* C4: the call always ends in a returned dict; an error result carries
\* status and message only, no total_profit and no ticker_results; and it
\* is an error result whenever an order has a null created_at or a handled
\* order's executions raise AttributeError.
C4_ErrorResultOnly ==
    /\ pc = "done" <=> ret.status \in {"success", "error"}
    /\ ret.status = "error" => DOMAIN ret = {"status", "message"}
    /\ (/\ pc = "done"
        /\ \/ \E i \in 1..Len(all_orders) : all_orders[i].created_at.tag = "none"
           \/ \E i \in FilledIds :
                 /\ all_orders[i].average_price.tag \in {"num", "absent"}
                 /\ all_orders[i].quantity.tag \in {"num", "absent"}
                 /\ all_orders[i].executions.tag = "list"
                 /\ all_orders[i].executions.val # <<>>
                 /\ all_orders[i].executions.val[1].tag = "notdict")
       => ret.status = "error"

\* An exception after some orders were grouped ended in an error result.
C4_Witness ==
    /\ ret.status = "error"
    /\ ret.message \in {"AttributeError", "TypeError"}
    /\ \E k \in 1..Len(ticker_groups) :
          ticker_groups[k].buys # <<>> \/ ticker_groups[k].sells # <<>>

TradeIds(k) == {r.id : r \in GroupRecords(k)}

AllTradeIds == UNION {TradeIds(k) : k \in 1..Len(ticker_groups)}

PairIds == UNION {{m.buy_id, m.sell_id} : m \in EmittedPairs}

\* The ticker the order is grouped under.
TickerOf(o) ==
    IF o.instrument = "" \/ o.lookup = "fail" THEN "UNKNOWN"
    ELSE Symbol(o.instrument)

\* Price, quantity or fees of the order are present and float() rejects them.
Unparsed(o) ==
    \/ o.average_price.tag \in {"none", "unparseable"}
    \/ o.quantity.tag \in {"none", "unparseable"}
    \/ HasBadFee(o)

\* C6 as stated: in a success report an order without average_price, or
\* with price, quantity or fees that do not parse, is in no buy or sell
\* list and in no pair, no TickerResult is there without a trade record,
\* and trade_count is the number of filled orders of the date.
C6_ExcludedAndNoGroup ==
    ret.status = "success" =>
        /\ \A i \in FilledIds :
              (all_orders[i].average_price.tag = "absent" \/ Unparsed(all_orders[i]))
                 => i \notin AllTradeIds /\ i \notin PairIds
        /\ \A k \in 1..Len(ret.ticker_results) :
              ret.ticker_results[k].buy_orders
                 + ret.ticker_results[k].sell_orders > 0
        /\ ret.trade_count = Cardinality(FilledIds)

\* C6 amended: in a success report an order whose price, quantity or fees
\* are present and do not parse is in no buy or sell list and in no pair;
\* every other filled order of the date, also one without average_price
\* (price 0), has one trade record in its ticker's list for its side;
\* every filled order's ticker has a TickerResult, also a skipped order's;
\* and trade_count is the number of filled orders of the date.
C6_ExcludedButGrouped ==
    ret.status = "success" =>
        /\ \A i \in FilledIds :
              LET o == all_orders[i]
                  k == GroupIndex(ticker_groups, TickerOf(o))
                  mine == IF o.side = "buy" THEN ticker_groups[k].buys
                          ELSE ticker_groups[k].sells
              IN  /\ \E j \in 1..Len(ret.ticker_results) :
                         ret.ticker_results[j].ticker = TickerOf(o)
                  /\ Unparsed(o) => i \notin AllTradeIds /\ i \notin PairIds
                  /\ ~Unparsed(o) =>
                        /\ Cardinality({j \in 1..Len(mine) : mine[j].id = i}) = 1
                        /\ o.average_price.tag = "absent" =>
                              \E j \in 1..Len(mine) :
                                  mine[j].id = i /\ mine[j].price = 0
        /\ AllTradeIds \subseteq FilledIds
        /\ ret.trade_count = Cardinality(FilledIds)

\* A success report with a TickerResult that holds no trade record, a
\* matched pair in another ticker, and more filled orders than records.
C6_Witness ==
    /\ ret.status = "success"
    /\ \E k \in 1..Len(ret.ticker_results) :
          /\ ret.ticker_results[k].buy_orders = 0
          /\ ret.ticker_results[k].sell_orders = 0
    /\ ret.matched_trades > 0
    /\ ret.trade_count > Cardinality(AllTradeIds)

\* The filled orders whose ticker lookup failed and which parse.
UnresolvedIds(side) ==
    {i \in FilledIds :
        /\ all_orders[i].instrument = "" \/ all_orders[i].lookup = "fail"
        /\ ~Unparsed(all_orders[i])
        /\ (all_orders[i].side = "buy") = (side = "buy")}

\* C7: once grouping is over, every order that parses and whose instrument
\* is empty or whose lookup failed is in the buy or sell list of the group
\* "UNKNOWN", and a success report counts these orders in that ticker's
\* buy_orders and sell_orders.
C7_UnknownTickerGrouped ==
    /\ (pc \in {"ticker", "buy"} \/ ret.status = "success") =>
          \A k \in 1..Len(ticker_groups) :
              ticker_groups[k].ticker = "UNKNOWN" =>
                  /\ {r.id : r \in SeqSet(ticker_groups[k].buys)}
                        = UnresolvedIds("buy")
                  /\ {r.id : r \in SeqSet(ticker_groups[k].sells)}
                        = UnresolvedIds("sell")
    /\ (pc \in {"ticker", "buy"} \/ ret.status = "success") =>
          (UnresolvedIds("buy") \cup UnresolvedIds("sell") # {}
              => \E k \in 1..Len(ticker_groups) :
                     ticker_groups[k].ticker = "UNKNOWN")
    /\ ret.status = "success" =>
          \A k \in 1..Len(ret.ticker_results) :
              ret.ticker_results[k].ticker = "UNKNOWN" =>
                  /\ ret.ticker_results[k].buy_orders
                        = Cardinality(UnresolvedIds("buy"))
                  /\ ret.ticker_results[k].sell_orders
                        = Cardinality(UnresolvedIds("sell"))

\* A success report whose "UNKNOWN" ticker holds a matched pair of two
\* orders of different instruments.
C7_Witness ==
    /\ ret.status = "success"
    /\ \E k \in 1..Len(ret.ticker_results) :
          /\ ret.ticker_results[k].ticker = "UNKNOWN"
          /\ \E m \in SeqSet(ret.ticker_results[k].matches) :
                all_orders[m.buy_id].instrument
                    # all_orders[m.sell_id].instrument

\* The place in the order list of the first filled order of the ticker.
FirstSeen(ticker) ==
    CHOOSE i \in FilledIds :
        /\ TickerOf(all_orders[i]) = ticker
        /\ \A j \in FilledIds : TickerOf(all_orders[j]) = ticker => i <= j

\* C8: in a success report ticker_results is non-increasing in profit, and
\* of two tickers with equal profit the one met first in the order list
\* comes first.
C8_SortedByProfitStable ==
    ret.status = "success" =>
        \A i, j \in 1..Len(ret.ticker_results) :
            i < j =>
                LET a == ret.ticker_results[i]
                    b == ret.ticker_results[j]
                IN  \/ a.profit > b.profit
                    \/ /\ a.profit = b.profit
                       /\ FirstSeen(a.ticker) < FirstSeen(b.ticker)

\* A success report in which the sort moved a ticker met later, of higher
\* profit, to the front.
C8_Witness ==
    /\ ret.status = "success"
    /\ \E i, j \in 1..Len(ret.ticker_results) :
          /\ i < j
          /\ ret.ticker_results[i].profit > ret.ticker_results[j].profit
          /\ FirstSeen(ret.ticker_results[i].ticker)
                > FirstSeen(ret.ticker_results[j].ticker)

\* C9: in a success report total_profit is the sum of the tickers' profit,
\* each ticker's profit is the sum of its matches' profit, matched_trades
\* is the number of pairs over all tickers, and a date without filled
\* orders gives total_profit 0, no ticker_results and matched_trades 0.
C9_TotalsConsistent ==
    ret.status = "success" =>
        /\ ret.total_profit = SumProfit(ret.ticker_results)
        /\ \A k \in 1..Len(ret.ticker_results) :
              /\ ret.ticker_results[k].profit
                    = SumProfit(ret.ticker_results[k].matches)
              /\ ret.ticker_results[k].matched_trades
                    = Len(ret.ticker_results[k].matches)
        /\ ret.matched_trades = SumSeq([k \in 1..Len(ret.ticker_results) |->
                  ret.ticker_results[k].matched_trades])
        /\ FilledIds = {} =>
              /\ ret.total_profit = 0
              /\ ret.ticker_results = <<>>
              /\ ret.matched_trades = 0

\* A success report over two tickers with a pair that paid fees and a
\* total that is not zero.
C9_Witness ==
    /\ ret.status = "success"
    /\ Len(ret.ticker_results) = 2
    /\ ret.total_profit # 0
    /\ \E m \in PairsOf(ret.ticker_results) : m.fees > 0

\* C10: a ticker without matched shares has avg_profit_per_share 0, every
\* pair is between a buy and a sell of quantity > 0, and no call ends in a
\* ZeroDivisionError.
C10_NoDivisionByZero ==
    /\ \A m \in EmittedPairs :
          /\ all_orders[m.buy_id].quantity.tag = "num"
          /\ Float(all_orders[m.buy_id].quantity) > 0
          /\ all_orders[m.sell_id].quantity.tag = "num"
          /\ Float(all_orders[m.sell_id].quantity) > 0
    /\ \A k \in 1..Len(results) :
          results[k].matched_shares = 0 => results[k].avg_profit_per_share = 0
    /\ ret.status = "success" =>
          \A k \in 1..Len(ret.ticker_results) :
              ret.ticker_results[k].matched_shares = 0
                  => ret.ticker_results[k].avg_profit_per_share = 0
    /\ ret.status = "error" => ret.message # "ZeroDivisionError"

\* A success report with a ticker that has a buy of quantity 0, a sell
\* with shares and nothing matched.
C10_Witness ==
    /\ ret.status = "success"
    /\ \E k \in 1..Len(ret.ticker_results) :
          LET tr == ret.ticker_results[k]
          IN  /\ tr.buy_orders >= 1
              /\ tr.buy_shares = 0
              /\ tr.sell_shares > 0
              /\ tr.matched_shares = 0
              /\ tr.avg_profit_per_share = 0

\* The sells with quantity left, created after the current buy, whose
\* price is as far from the buy's price as the price of the new pair's sell.
TiedSells ==
    {j \in OpenSellsByCreation :
        Abs(Sells[j].price - Buys[bi].price)
            = Abs(NewPair.sell_price - NewPair.buy_price)}

\* C11: when several candidate sells have the same smallest price
\* difference to the buy, the selected one stands first among them in the
\* sell list as sorted: none of them has a higher price, and one of the
\* same price does not come earlier in the input order list.
C11_TieBreakFirstInSortedSells ==
    [][Emits =>
          \A j \in TiedSells :
              /\ \E c \in 1..j : Sells[c].id = NewPair.sell_id
              /\ Sells[j].price <= NewPair.sell_price
              /\ Sells[j].price = NewPair.sell_price
                    => NewPair.sell_id <= Sells[j].id]_vars

\* A pair was emitted with a sell above the buy's price while a sell as far
\* below it, earlier in the input and created after the buy, had quantity
\* left.
C11_Witness ==
    /\ pc = "buy"
    /\ bi <= Len(Buys)
    /\ matched_pairs # <<>>
    /\ LET m == matched_pairs[Len(matched_pairs)]
       IN  /\ m.buy_id = Buys[bi].id
           /\ m.sell_price > m.buy_price
           /\ \E j \in OpenSellsByCreation :
                 /\ Sells[j].price < m.buy_price
                 /\ m.buy_price - Sells[j].price = m.sell_price - m.buy_price
                 /\ Sells[j].id < m.sell_id

\* The trade record of the order id.
RecordOf(id) ==
    CHOOSE r \in UNION {GroupRecords(k) : k \in 1..Len(ticker_groups)} :
        r.id = id

\* Twice the distance of the rounded value from the quotient n / d, times d.
TwiceOff(rounded, n, d) == 2 * Abs(rounded * d - n)

\* The pair's fees and profit are the amounts of lines 643-657, the fee
\* shares taken of the records' original quantities, to the nearest cent.
PairAmounts(m) ==
    LET buy == RecordOf(m.buy_id)
        sell == RecordOf(m.sell_id)
        d == buy.quantity * sell.quantity
        fees_times_d == buy.fees * m.quantity * sell.quantity
                          + sell.fees * m.quantity * buy.quantity
        gross == (m.sell_price - m.buy_price) * m.quantity
    IN  /\ m.buy_price = buy.price
        /\ m.sell_price = sell.price
        /\ TwiceOff(m.fees, fees_times_d, d) <= d
        /\ TwiceOff(m.profit, gross * d - fees_times_d, d) <= d

\* The fee shares of the record r over the matches of group k, before
\* rounding, times r.quantity.
AllocatedTimesQuantity(k, r) ==
    SumSeq([j \in 1..Len(GroupPairs(k)) |->
              IF r.id \in {GroupPairs(k)[j].buy_id, GroupPairs(k)[j].sell_id}
              THEN r.fees * GroupPairs(k)[j].quantity ELSE 0])

\* C12: every emitted pair has the smaller of the two remaining quantities
\* at its match as quantity, fees = buy.fees * quantity / buy.quantity
\* + sell.fees * quantity / sell.quantity of the original quantities and
\* profit = (sell_price - buy_price) * quantity - fees, each to the nearest
\* cent; the unrounded fee shares of one order sum to at most its fees, and
\* to its fees when nothing of it remains.
C12_PairQuantityFeesProfit ==
    /\ [](/\ \A m \in EmittedPairs : PairAmounts(m)
          /\ \A k \in 1..Len(ticker_groups) : \A r \in GroupRecords(k) :
                (k <= Len(results) \/ (k = ti /\ pc = "buy")) =>
                    /\ AllocatedTimesQuantity(k, r) <= r.fees * r.quantity
                    /\ r.remaining_qty = 0 =>
                          AllocatedTimesQuantity(k, r) = r.fees * r.quantity)
    /\ [][Emits =>
            \E c \in 1..Len(Sells) :
                /\ Sells[c].id = NewPair.sell_id
                /\ NewPair.buy_id = Buys[bi].id
                /\ NewPair.quantity > 0
                /\ NewPair.quantity =
                      Min(Buys[bi].remaining_qty, Sells[c].remaining_qty)]_vars

\* The report of a buy of 10 at 100.00 with fee 1.00 and a later sell of 10
\* at 105.00 with fee 1.00: one pair, quantity 10, fees 2.00, profit 48.00.
C12_Witness ==
    /\ ret.status = "success"
    /\ Len(all_orders) = 2
    /\ Len(ret.ticker_results) = 1
    /\ ret.ticker_results[1].matches =
          <<[buy_id |-> 1, sell_id |-> 2, quantity |-> 10,
             buy_price |-> 10000, sell_price |-> 10500,
             profit |-> 4800, fees |-> 200]>>

\* Matching of the k-th ticker group has begun.
MatchingBegun(k) == k <= Len(results) \/ (k = ti /\ pc = "buy")

\* The buy record has no quantity left, or no sell of group k that was
\* created after it has.
FinishedMatching(k, buy) ==
    \/ buy.remaining_qty = 0
    \/ \A j \in 1..Len(ticker_groups[k].sells) :
          LET sell == ticker_groups[k].sells[j]
          IN  ~(/\ sell.remaining_qty > 0
                /\ After(sell.created_at, buy.created_at))

\* C13: in each ticker's matches the buys' created_at never decrease, the
\* matches of one buy stand together, and whenever a buy has a match every
\* buy of the ticker created before it is fully matched or has no sell
\* created after it with quantity left.
C13_BuysMatchedInCreatedOrder ==
    \A k \in 1..Len(ticker_groups) :
        MatchingBegun(k) =>
            LET pairs == GroupPairs(k)
            IN  /\ \A i, j \in 1..Len(pairs) :
                      i < j => ~After(all_orders[pairs[i].buy_id].created_at,
                                      all_orders[pairs[j].buy_id].created_at)
                /\ \A i, j, l \in 1..Len(pairs) :
                      (i < j /\ j < l /\ pairs[i].buy_id = pairs[l].buy_id)
                          => pairs[j].buy_id = pairs[i].buy_id
                /\ \A i \in 1..Len(pairs) :
                      \A b \in 1..Len(ticker_groups[k].buys) :
                          LET earlier == ticker_groups[k].buys[b]
                          IN  After(all_orders[pairs[i].buy_id].created_at,
                                    earlier.created_at)
                                  => FinishedMatching(k, earlier)

\* A report in whose matches a buy created earlier, which stands later in
\* the order list, comes before a buy created later.
C13_Witness ==
    /\ ret.status = "success"
    /\ \E k \in 1..Len(ret.ticker_results) :
          LET pairs == ret.ticker_results[k].matches
          IN  \E i, j \in 1..Len(pairs) :
                  /\ i < j
                  /\ pairs[i].buy_id > pairs[j].buy_id
                  /\ After(all_orders[pairs[j].buy_id].created_at,
                           all_orders[pairs[i].buy_id].created_at)

\* C14: two orders that reference different instruments are never in the
\* same ticker group, and every emitted pair is of a buy and a sell that
\* reference the same instrument.
C14_GroupsPartitionByInstrument ==
    /\ \A k \in 1..Len(ticker_groups) : \A r, s \in GroupRecords(k) :
          all_orders[r.id].instrument = all_orders[s.id].instrument
    /\ \A m \in EmittedPairs :
          all_orders[m.buy_id].instrument = all_orders[m.sell_id].instrument

\* The while loop of the b-th buy of the t-th ticker is running.
InLoop(t, b) == pc = "buy" /\ ti = t /\ bi = b

\* Every while loop that is entered is left.
LoopsTerminate ==
    \A t \in 1..MaxOrders : \A b \in 1..MaxOrders :
        InLoop(t, b) ~> ~InLoop(t, b)

\* An iteration that stays in the loop emits a pair of quantity > 0 that
\* leaves the current buy or the chosen sell with nothing.
IterationProgress ==
    (pc = "buy" /\ pc' = "buy" /\ ti' = ti /\ bi' = bi) =>
        /\ Emits
        /\ NewPair.quantity > 0
        /\ NewPair.buy_id = Buys[bi].id
        /\ \/ ticker_groups'[ti].buys[bi].remaining_qty = 0
           \/ \E c \in 1..Len(Sells) :
                 /\ Sells[c].id = NewPair.sell_id
                 /\ ticker_groups'[ti].sells[c].remaining_qty = 0

\* No two matches of group k are of the same buy and the same sell.
PairsDistinct(k) ==
    \A i, j \in 1..Len(GroupPairs(k)) :
        (/\ GroupPairs(k)[i].buy_id = GroupPairs(k)[j].buy_id
         /\ GroupPairs(k)[i].sell_id = GroupPairs(k)[j].sell_id) => i = j

\* The buy and sell records of group k.
RecordCount(k) == Len(ticker_groups[k].buys) + Len(ticker_groups[k].sells)

\* C15 as stated: every while loop terminates, every iteration that does
\* not leave it emits a match of quantity > 0 that brings the buy's or the
\* chosen sell's remaining quantity to 0, no (buy_id, sell_id) is twice in
\* a ticker's matches, and every ticker with B buys and S sells has at most
\* B + S - 1 matches.
C15_TerminatesBelowBPlusS ==
    /\ LoopsTerminate
    /\ [][IterationProgress]_vars
    /\ [](\A k \in 1..Len(ticker_groups) :
              /\ PairsDistinct(k)
              /\ Len(GroupPairs(k)) <= RecordCount(k) - 1)

\* C15 amended: every while loop terminates, every iteration that does not
\* leave it emits a match of quantity > 0 that brings the buy's or the
\* chosen sell's remaining quantity to 0, no (buy_id, sell_id) is twice in
\* a ticker's matches, and every ticker with B buys and S sells, B + S >= 1,
\* has at most B + S - 1 matches; a ticker without buys and sells has none.
C15_TerminatesBelowBPlusSIfAny ==
    /\ LoopsTerminate
    /\ [][IterationProgress]_vars
    /\ [](\A k \in 1..Len(ticker_groups) :
              /\ PairsDistinct(k)
              /\ RecordCount(k) >= 1 =>
                    Len(GroupPairs(k)) <= RecordCount(k) - 1
              /\ RecordCount(k) = 0 => Len(GroupPairs(k)) = 0)

\* A report with a ticker of B + S - 1 >= 2 matches: a while loop ran
\* twice, or a sell served two buys.
C15_Witness ==
    /\ ret.status = "success"
    /\ \E k \in 1..Len(ret.ticker_results) :
          /\ ret.ticker_results[k].matched_trades >= 2
          /\ ret.ticker_results[k].matched_trades =
                ret.ticker_results[k].buy_orders
                  + ret.ticker_results[k].sell_orders - 1

\* The buys and sells of group k that have quantity left.
OpenBuys(k) ==
    {r \in SeqSet(ticker_groups[k].buys) : r.remaining_qty > 0}

OpenSells(k) ==
    {r \in SeqSet(ticker_groups[k].sells) : r.remaining_qty > 0}

\* C16: in a ticker whose matching has finished no buy and sell both have
\* quantity left with the sell created strictly after the buy; and when a
\* buy is left with quantity the buy loop goes on with the next buy.
C16_GreedyMatchingMaximal ==
    /\ [](\A k \in 1..Len(results) :
              \A buy \in OpenBuys(k) : \A sell \in OpenSells(k) :
                  ~After(all_orders[sell.id].created_at,
                         all_orders[buy.id].created_at))
    /\ [][(LeavesBuy /\ Buys[bi].remaining_qty > 0) =>
              /\ pc' = "buy"
              /\ ti' = ti
              /\ bi' <= Len(Buys) => buy_qty' = Buys[bi'].remaining_qty]_vars

\* A report with a ticker that has matches and is left with a buy and a
\* sell that both have quantity.
C16_Witness ==
    /\ ret.status = "success"
    /\ \E k \in 1..Len(results) :
          /\ results[k].matched_trades >= 1
          /\ OpenBuys(k) # {}
          /\ OpenSells(k) # {}

====
